---- MODULE Spec2Model ----
(***************************************************************************)
(* pod-error-monitor backend (backend/main.go, backend/config/config.go). *)
(*                                                                         *)
(* Two parts of the server are modelled:                                   *)
(*   - the aggregation pipeline: calculateNamespaceStats, getPodErrors,    *)
(*     isErrorState and the configuration loaded by LoadConfig, driven by  *)
(*     the two read handlers: over pod lists of several namespaces         *)
(*     (specification SpecStats), and over one pod with every waiting      *)
(*     reason and restart counts around the thresholds (SpecClassify);     *)
(*   - the kubeconfig context switch: Server.switchContext running as      *)
(*     concurrent net/http handlers over the shared Server fields and the  *)
(*     kubeconfig file (specification Spec), and one switch at a time next *)
(*     to the read handlers and getContexts (specification SpecReads).     *)
(*                                                                         *)
(* Scores are float64 in the source, always of the form                    *)
(* float64(n) + float64(r)*0.1; the model keeps them in tenths (10*n + r), *)
(* which orders and compares exactly like the float64 values for the       *)
(* restart counts used wherever two scores are compared (multiples of 10). *)
(***************************************************************************)
EXTENDS Integers, Sequences, FiniteSets, TLC

VARIABLES
    pods,        \* the pod list the API server returns (v1.PodList.Items)
    appConfig,   \* Server.appConfig: the *config.Config LoadConfig returned
    resp,        \* the body of the last HTTP response written by a read handler
    fetch,       \* the read handlers in mid-request: position and locals of each
    kubeconfig,  \* the file at kubeconfig_path: its current-context entry
    clientset,   \* Server.clientset: the context whose cluster the client talks to
    config,      \* Server.config: the client config it points to
    sw,          \* the switchContext handlers: position and locals of each
    done         \* the response a switchContext call wrote in the step just taken

statsVars == <<pods, appConfig, resp, fetch>>

serverVars == <<kubeconfig, clientset, config, sw, done>>

vars == <<pods, appConfig, resp, fetch, kubeconfig, clientset, config, sw, done>>

(***************************************************************************)
(* Bounds and value domains of the aggregation model.                      *)
(***************************************************************************)
\* at most this many container statuses in one pod list
MaxContainers == 2

Namespaces == {"a", "b"}

\* (namespace, name) of the pods that may exist, in the order the API lists them
PodIds == << [Namespace |-> "a", Name |-> "p1"],
             [Namespace |-> "b", Name |-> "p1"],
             [Namespace |-> "b", Name |-> "p2"] >>

Phases == {"Running", "Failed"}

RestartCounts == {0, 10}

\* containerStatus.State.Waiting == nil
NoWaiting == "<nil>"

WaitingReasons == {"CrashLoopBackOff", "ImagePullBackOff", "CreateContainerError"}

ContainerStates == [RestartCount : RestartCounts, Waiting : WaitingReasons \cup {NoWaiting}]

ContainerNames == <<"c1", "c2", "c3", "c4">>

\* the number of container statuses in a pod list
RECURSIVE ContainerCount(_)
ContainerCount(items) ==
    IF items = << >> THEN 0
    ELSE Len(Head(items).ContainerStatuses) + ContainerCount(Tail(items))

\* the place in PodIds of the last pod of a pod list, 0 for the empty list
LastPodId(items) ==
    IF items = << >> THEN 0
    ELSE CHOOSE i \in 1..Len(PodIds) :
           /\ PodIds[i].Namespace = items[Len(items)].Namespace
           /\ PodIds[i].Name = items[Len(items)].Name

(***************************************************************************)
(* config.LoadConfig: the monitoring section of the YAML file, with the    *)
(* defaults applied.  Weights are in tenths (3.0 is 30, 0.1 is 1).         *)
(***************************************************************************)
ZeroWeights == [CrashLoop |-> 0, ImagePull |-> 0, HighRestarts |-> 0,
                OtherErrors |-> 0, RestartMultiplier |-> 0]

DefaultWeights == [CrashLoop |-> 30, ImagePull |-> 20, HighRestarts |-> 20,
                   OtherErrors |-> 10, RestartMultiplier |-> 1]

\* the file clientcmd.NewDefaultPathOptions() names when KUBECONFIG is unset
RecommendedHomeFile == "~/.kube/config"

\* the kubernetes section of the shipped backend/config.yaml: a kubeconfig
\* file in the home directory of the user who runs the server
ShippedKubernetes == [UseInCluster |-> FALSE, KubeconfigPath |-> RecommendedHomeFile]

\* the monitoring sections read: none at all, and the shipped
\* backend/config.yaml (threshold 1) with crash_loop raised to 5.0
YamlFiles == { [HighRestartThreshold |-> 0, ErrorWeights |-> ZeroWeights,
                Kubernetes |-> ShippedKubernetes],
               [HighRestartThreshold |-> 1,
                ErrorWeights |-> [CrashLoop |-> 50, ImagePull |-> 20, HighRestarts |-> 20,
                                  OtherErrors |-> 10, RestartMultiplier |-> 1],
                Kubernetes |-> ShippedKubernetes] }

LoadConfig(yaml) ==
    [HighRestartThreshold |->
        IF yaml.HighRestartThreshold = 0 THEN 5 ELSE yaml.HighRestartThreshold,
     ErrorWeights |->
        IF yaml.ErrorWeights = ZeroWeights THEN DefaultWeights ELSE yaml.ErrorWeights,
     Kubernetes |-> yaml.Kubernetes]

(***************************************************************************)
(* getPodErrors and isErrorState.                                          *)
(***************************************************************************)
\* isErrorState with a slip: ErrImageNeverPull is missing from the table
isErrorState_NoNeverPull(state) ==
    state \in {"ImagePullBackOff", "CrashLoopBackOff", "ErrImagePull",
               "CreateContainerError", "InvalidImageName", "ImageInspectError"}

isErrorState(state) ==
    state \in {"ImagePullBackOff", "CrashLoopBackOff", "ErrImagePull",
               "CreateContainerError", "InvalidImageName", "ImageInspectError",
               "ErrImageNeverPull"}

\* the records one container status appends (main.go:331-354)
ContainerErrors(pod, cs) ==
    (IF cs.RestartCount > 5
       THEN << [Namespace |-> pod.Namespace, PodName |-> pod.Name,
                ErrorType |-> "HighRestartCount", ContainerName |-> cs.Name,
                RestartCount |-> cs.RestartCount] >>
       ELSE << >>)
    \o
    (IF cs.Waiting # NoWaiting /\ isErrorState(cs.Waiting)
       THEN << [Namespace |-> pod.Namespace, PodName |-> pod.Name,
                ErrorType |-> cs.Waiting, ContainerName |-> cs.Name,
                RestartCount |-> cs.RestartCount] >>
       ELSE << >>)

RECURSIVE ContainersErrors(_, _)
ContainersErrors(pod, css) ==
    IF css = << >> THEN << >>
    ELSE ContainerErrors(pod, Head(css)) \o ContainersErrors(pod, Tail(css))

\* PodErrors with a slip: a failed pod's containers are skipped
PodErrors_FailedOnly(pod) ==
    IF pod.Phase = "Failed"
      THEN << [Namespace |-> pod.Namespace, PodName |-> pod.Name,
               ErrorType |-> "PodFailed", ContainerName |-> "", RestartCount |-> 0] >>
      ELSE ContainersErrors(pod, pod.ContainerStatuses)

\* the records one pod appends (main.go:321-355)
PodErrors(pod) ==
    (IF pod.Phase = "Failed"
       THEN << [Namespace |-> pod.Namespace, PodName |-> pod.Name,
                ErrorType |-> "PodFailed", ContainerName |-> "", RestartCount |-> 0] >>
       ELSE << >>)
    \o ContainersErrors(pod, pod.ContainerStatuses)

RECURSIVE getPodErrors(_)
getPodErrors(items) ==
    IF items = << >> THEN << >>
    ELSE PodErrors(Head(items)) \o getPodErrors(Tail(items))

(***************************************************************************)
(* calculateNamespaceStats.                                                *)
(***************************************************************************)
\* &NamespaceStats{Name: pod.Namespace}
NewStats(namespace) ==
    [Name |-> namespace, TotalErrors |-> 0, Score |-> 0, UniquePods |-> 0,
     CrashLoop |-> 0, ImagePull |-> 0, HighRestarts |-> 0, TotalRestarts |-> 0]

\* statsMap and uniquePodsMap before the first pod
EmptyMaps == [statsMap |-> [n \in {} |-> NewStats(n)], uniquePodsMap |-> [n \in {} |-> {}]]

\* the first visit of a namespace makes its two map entries (main.go:255-260)
Materialize(m, namespace) ==
    IF namespace \in DOMAIN m.statsMap THEN m
    ELSE [statsMap |-> [n \in DOMAIN m.statsMap \cup {namespace} |->
                          IF n = namespace THEN NewStats(n) ELSE m.statsMap[n]],
          uniquePodsMap |-> [n \in DOMAIN m.uniquePodsMap \cup {namespace} |->
                          IF n = namespace THEN {} ELSE m.uniquePodsMap[n]]]

\* uniquePodsMap[pod.Namespace][pod.Name] = true
MarkPod(m, pod) ==
    [m EXCEPT !.uniquePodsMap[pod.Namespace] = @ \cup {pod.Name}]

\* CountPhase with a slip: the failed phase is not counted
CountPhase_NoCount(m, pod) == m

\* if pod.Status.Phase == v1.PodFailed (main.go:264-267)
CountPhase(m, pod) ==
    IF pod.Phase = "Failed"
      THEN MarkPod([m EXCEPT !.statsMap[pod.Namespace].TotalErrors = @ + 1], pod)
      ELSE m

\* CountRestarts with a slip: stats.TotalErrors++ is missing
CountRestarts_NoTotal(m, pod, cs) ==
    IF cs.RestartCount > 5
      THEN MarkPod([m EXCEPT !.statsMap[pod.Namespace].HighRestarts = @ + 1,
                             !.statsMap[pod.Namespace].TotalRestarts = @ + cs.RestartCount],
                   pod)
      ELSE m

\* if containerStatus.RestartCount > 5 (main.go:270-275)
CountRestarts(m, pod, cs) ==
    IF cs.RestartCount > 5
      THEN MarkPod([m EXCEPT !.statsMap[pod.Namespace].TotalErrors = @ + 1,
                             !.statsMap[pod.Namespace].HighRestarts = @ + 1,
                             !.statsMap[pod.Namespace].TotalRestarts = @ + cs.RestartCount],
                   pod)
      ELSE m

\* CountWaiting with a slip: the CrashLoopBackOff case adds the restart count too
CountWaiting_AddsRestarts(m, pod, cs) ==
    IF cs.Waiting = NoWaiting THEN m
    ELSE IF cs.Waiting = "CrashLoopBackOff"
      THEN MarkPod([m EXCEPT !.statsMap[pod.Namespace].CrashLoop = @ + 1,
                             !.statsMap[pod.Namespace].TotalErrors = @ + 1,
                             !.statsMap[pod.Namespace].TotalRestarts = @ + cs.RestartCount],
                   pod)
    ELSE IF cs.Waiting \in {"ImagePullBackOff", "ErrImagePull"}
      THEN MarkPod([m EXCEPT !.statsMap[pod.Namespace].ImagePull = @ + 1,
                             !.statsMap[pod.Namespace].TotalErrors = @ + 1], pod)
    ELSE m

\* the switch on the waiting reason (main.go:277-289)
CountWaiting(m, pod, cs) ==
    IF cs.Waiting = NoWaiting THEN m
    ELSE IF cs.Waiting = "CrashLoopBackOff"
      THEN MarkPod([m EXCEPT !.statsMap[pod.Namespace].CrashLoop = @ + 1,
                             !.statsMap[pod.Namespace].TotalErrors = @ + 1], pod)
    ELSE IF cs.Waiting \in {"ImagePullBackOff", "ErrImagePull"}
      THEN MarkPod([m EXCEPT !.statsMap[pod.Namespace].ImagePull = @ + 1,
                             !.statsMap[pod.Namespace].TotalErrors = @ + 1], pod)
    ELSE m

RECURSIVE CountContainers(_, _, _)
CountContainers(m, pod, css) ==
    IF css = << >> THEN m
    ELSE CountContainers(CountWaiting(CountRestarts(m, pod, Head(css)), pod, Head(css)),
                         pod, Tail(css))

\* the first loop over pods.Items (main.go:254-291)
RECURSIVE CountPods(_, _)
CountPods(m, items) ==
    IF items = << >> THEN m
    ELSE CountPods(CountContainers(CountPhase(Materialize(m, Head(items).Namespace),
                                              Head(items)),
                                   Head(items), Head(items).ContainerStatuses),
                   Tail(items))

\* Score with a slip: a crash loop weighs 2, like an image pull failure
Score_FlatCrashLoop(stats) ==
    10 * (stats.CrashLoop * 2 + stats.ImagePull * 2 + stats.HighRestarts * 2
          + (stats.TotalErrors - stats.CrashLoop - stats.ImagePull - stats.HighRestarts))
    + stats.TotalRestarts

\* Score with a slip: the restart term is missing
Score_NoRestarts(stats) ==
    10 * (stats.CrashLoop * 3 + stats.ImagePull * 2 + stats.HighRestarts * 2
          + (stats.TotalErrors - stats.CrashLoop - stats.ImagePull - stats.HighRestarts))

\* stats.Score, in tenths (main.go:299-303)
Score(stats) ==
    10 * (stats.CrashLoop * 3 + stats.ImagePull * 2 + stats.HighRestarts * 2
          + (stats.TotalErrors - stats.CrashLoop - stats.ImagePull - stats.HighRestarts))
    + stats.TotalRestarts

\* Results with a slip: the TotalErrors > 0 test is missing
Results_NoFilter(m) ==
    { [m.statsMap[n] EXCEPT !.UniquePods = Cardinality(m.uniquePodsMap[n]),
                            !.Score = Score([m.statsMap[n] EXCEPT
                                               !.UniquePods = Cardinality(m.uniquePodsMap[n])])] :
        n \in DOMAIN m.statsMap }

\* the second loop: the entries appended to results, whatever the order in
\* which the map is ranged over (main.go:294-308)
Results(m) ==
    { [m.statsMap[n] EXCEPT !.UniquePods = Cardinality(m.uniquePodsMap[n]),
                            !.Score = Score([m.statsMap[n] EXCEPT
                                               !.UniquePods = Cardinality(m.uniquePodsMap[n])])] :
        n \in { x \in DOMAIN m.statsMap : m.statsMap[x].TotalErrors > 0 } }

\* the sequences that hold each element of set S once
Orderings(S) ==
    { f \in [1..Cardinality(S) -> S] : \A i, j \in 1..Cardinality(S) : f[i] = f[j] => i = j }

\* SortSlice with a slip: the slice is returned as the map range left it
SortSlice_Unsorted(results) == Orderings(results)

\* sort.Slice with less = Score greater: the slice ends in an order in which no
\* element has a greater score than one before it.  Elements of equal score
\* keep an order that comes from the range over the map, which Go randomizes,
\* so every order of them is a possible outcome (main.go:295, 310-312)
SortSlice(results) ==
    { f \in Orderings(results) :
        \A i, j \in 1..Len(f) : i < j => ~(f[j].Score > f[i].Score) }

\* the slices calculateNamespaceStats may return for a pod list
calculateNamespaceStats(items) == SortSlice(Results(CountPods(EmptyMaps, items)))

(***************************************************************************)
(* The kubeconfig file and the client-go calls made on it.  The file's     *)
(* contexts and clusters never change; only current-context is written.    *)
(* The server loads the file at kubeconfig_path; ModifyConfig writes       *)
(* through NewDefaultPathOptions, which names that same file when          *)
(* kubeconfig_path is the recommended home file, as in the shipped         *)
(* config.yaml, and another file otherwise.                                *)
(***************************************************************************)
\* contexts: name -> cluster reference
KubeContexts ==
    "dev" :> "east" @@ "prod" :> "west" @@ "orphan" :> "gone" @@ "badca" :> "torn"

\* clusters: name -> entry; "gone" has no entry, and the certificate
\* authority of "torn" does not parse
KubeClusters ==
    "east" :> [Server |-> "https://east", CAParses |-> TRUE] @@
    "west" :> [Server |-> "https://west", CAParses |-> TRUE] @@
    "torn" :> [Server |-> "https://torn", CAParses |-> FALSE]

\* the {context} path variable of POST /api/contexts/{context}
RequestedNames == DOMAIN KubeContexts \cup {"ghost"}

\* clientConfig.ClientConfig() returns no error: the context is in the file,
\* its cluster has an entry and the entry has a server address
ClientConfigOk(context) ==
    /\ context \in DOMAIN KubeContexts
    /\ KubeContexts[context] \in DOMAIN KubeClusters
    /\ KubeClusters[KubeContexts[context]].Server # ""

\* kubernetes.NewForConfig(config) returns no error
NewForConfigOk(context) == KubeClusters[KubeContexts[context]].CAParses

\* clientcmd.NewNonInteractiveDeferredLoadingClientConfig(rules, overrides),
\* once loaded: the override and the current-context read from the file
NewClientConfig(override, fileCurrent) ==
    [CurrentContext |-> override, RawCurrent |-> fileCurrent]

\* the context a client config resolves to
BoundContext(cc) == IF cc.CurrentContext # "" THEN cc.CurrentContext ELSE cc.RawCurrent

(***************************************************************************)
(* Server.switchContext and Server.getContexts.  net/http runs each        *)
(* request on its own goroutine and the handlers take no lock, so the      *)
(* steps of concurrent switchContext calls interleave.                     *)
(***************************************************************************)
\* switchContext requests that may be in progress at once
MaxSwitches == 2

Reqs == 1..MaxSwitches

NoClientConfig == [CurrentContext |-> "", RawCurrent |-> ""]

\* Server.config is a pointer to an interface value.  NilPointer is the nil
\* pointer; NilClientConfig is a pointer to the nil interface value, which is
\* what &clientConfig is when main never assigned clientConfig
NilPointer == [CurrentContext |-> "<nil pointer>", RawCurrent |-> "<nil pointer>"]

NilClientConfig == [CurrentContext |-> "<nil interface>", RawCurrent |-> "<nil interface>"]

\* read requests that may be in progress at once
MaxFetches == 1

Fetches == 1..MaxFetches

\* a read handler that serves no request
IdleFetch == [pc |-> "idle", client |-> "", handler |-> "", namespace |-> "", attempts |-> 0]

\* a handler goroutine that serves no request.  mutated records whether the
\* call has changed the current-context of the server's kubeconfig file; it
\* is kept while the call can still be rejected
IdleSwitch == [pc |-> "idle", newContext |-> "", clientConfig |-> NoClientConfig,
               mutated |-> FALSE]

\* no response was written by the step just taken
NoneDone == [result |-> "", newContext |-> "", mutated |-> FALSE]

\* main: the kubeconfig branch (main.go:73-101); log.Fatalf leaves no server
Init ==
    /\ pods = << >>
    /\ appConfig = LoadConfig([HighRestartThreshold |-> 0, ErrorWeights |-> ZeroWeights,
                               Kubernetes |-> ShippedKubernetes])
    /\ resp = [kind |-> "none", namespace |-> "", body |-> << >>]
    /\ fetch = [f \in Fetches |-> IdleFetch]
    /\ \E DefaultContext \in DOMAIN KubeContexts \cup {""}, current \in DOMAIN KubeContexts :
         LET clientConfig == NewClientConfig(DefaultContext, current) IN
         /\ ClientConfigOk(BoundContext(clientConfig))
         /\ NewForConfigOk(BoundContext(clientConfig))
         /\ kubeconfig = current
         /\ clientset = BoundContext(clientConfig)
         /\ config = clientConfig
    /\ sw = [p \in Reqs |-> IdleSwitch]
    /\ done = NoneDone

\* the handler writes its response and returns; the goroutine is free again
Finish(p, result, mutated) ==
    /\ sw' = [sw EXCEPT ![p] = IdleSwitch]
    /\ done' = [result |-> result, newContext |-> sw[p].newContext, mutated |-> mutated]

\* SwitchValidate with a slip: current-context is written before the lookup
SwitchValidate_PersistFirst(p, name) ==
    /\ sw[p].pc = "idle"
    /\ IF name \notin DOMAIN KubeContexts
         THEN /\ sw' = sw
              /\ kubeconfig' = name
              /\ done' = [result |-> "ContextNotFound", newContext |-> name,
                          mutated |-> FALSE]
         ELSE /\ sw' = [sw EXCEPT ![p] = [IdleSwitch EXCEPT !.pc = "persist",
                                                            !.newContext = name]]
              /\ UNCHANGED kubeconfig
              /\ done' = NoneDone
    /\ UNCHANGED <<clientset, config>>

\* SwitchValidate with a slip: the lookup is missing
SwitchValidate_NoLookup(p, name) ==
    /\ sw[p].pc = "idle"
    /\ sw' = [sw EXCEPT ![p] = [IdleSwitch EXCEPT !.pc = "persist", !.newContext = name]]
    /\ done' = NoneDone
    /\ UNCHANGED <<kubeconfig, clientset, config>>

\* main.go:151-169: the s.config == nil guard, (*s.config).RawConfig(), which
\* panics on a nil interface value, and the lookup in rawConfig.Contexts
SwitchValidate(p, name) ==
    /\ sw[p].pc = "idle"
    /\ IF config = NilPointer
         THEN /\ sw' = sw
              /\ done' = [result |-> "NotRunningWithKubeconfig", newContext |-> name,
                          mutated |-> FALSE]
         ELSE IF config = NilClientConfig
         THEN /\ sw' = sw
              /\ done' = [result |-> "panic", newContext |-> name, mutated |-> FALSE]
         ELSE IF name \notin DOMAIN KubeContexts
         THEN /\ sw' = sw
              /\ done' = [result |-> "ContextNotFound", newContext |-> name,
                          mutated |-> FALSE]
         ELSE /\ sw' = [sw EXCEPT ![p] = [IdleSwitch EXCEPT !.pc = "persist",
                                                            !.newContext = name]]
              /\ done' = NoneDone
    /\ UNCHANGED <<kubeconfig, clientset, config>>

\* main.go:172-179: clientcmd.ModifyConfig writes current-context, or fails.
\* It is given NewDefaultPathOptions(), so it writes the file those options
\* name, which is the server's kubeconfig file only when kubeconfig_path is
\* that file
SwitchPersist(p, written) ==
    /\ sw[p].pc = "persist"
    /\ IF written
         THEN /\ kubeconfig' = IF appConfig.Kubernetes.KubeconfigPath = RecommendedHomeFile
                                  THEN sw[p].newContext
                                  ELSE kubeconfig
              /\ sw' = [sw EXCEPT ![p].pc = "construct",
                                  ![p].mutated = (kubeconfig' # kubeconfig)]
              /\ done' = NoneDone
         ELSE /\ UNCHANGED kubeconfig
              /\ Finish(p, "PersistFailure", FALSE)
    /\ UNCHANGED <<clientset, config>>

\* main.go:181-201: load the file under the new override, build the clientset
SwitchConstruct(p) ==
    /\ sw[p].pc = "construct"
    /\ IF ~ClientConfigOk(sw[p].newContext)
         THEN Finish(p, "ClusterRefInvalid", sw[p].mutated)
         ELSE IF ~NewForConfigOk(sw[p].newContext)
         THEN Finish(p, "ClientConstructionFailure", sw[p].mutated)
         ELSE /\ sw' = [sw EXCEPT ![p].pc = "publishClientset",
                                  ![p].mutated = FALSE,
                                  ![p].clientConfig =
                                      NewClientConfig(sw[p].newContext, kubeconfig)]
              /\ done' = NoneDone
    /\ UNCHANGED <<kubeconfig, clientset, config>>

\* main.go:204: s.clientset = clientset
SwitchPublishClientset(p) ==
    /\ sw[p].pc = "publishClientset"
    /\ clientset' = sw[p].newContext
    /\ sw' = [sw EXCEPT ![p].pc = "publishConfig"]
    /\ done' = NoneDone
    /\ UNCHANGED <<kubeconfig, config>>

\* main.go:205-217: s.config = &clientConfig, then the response is written
SwitchPublishConfig(p) ==
    /\ sw[p].pc = "publishConfig"
    /\ config' = sw[p].clientConfig
    /\ Finish(p, "ok", TRUE)
    /\ UNCHANGED <<kubeconfig, clientset>>

Next ==
    \/ \E p \in Reqs, name \in RequestedNames : SwitchValidate(p, name) /\ UNCHANGED statsVars
    \/ \E p \in Reqs, written \in BOOLEAN : SwitchPersist(p, written) /\ UNCHANGED statsVars
    \/ \E p \in Reqs : SwitchConstruct(p) /\ UNCHANGED statsVars
    \/ \E p \in Reqs : SwitchPublishClientset(p) /\ UNCHANGED statsVars
    \/ \E p \in Reqs : SwitchPublishConfig(p) /\ UNCHANGED statsVars

Spec == Init /\ [][Next]_vars

(***************************************************************************)
(* The two read handlers over a pod list, and the specification of the     *)
(* aggregation pipeline.                                                   *)
(***************************************************************************)
\* Pods(namespace).List: the API server's namespace filter; "" lists them all
ListPods(namespace) ==
    SelectSeq(pods, LAMBDA pod : namespace = "" \/ pod.Namespace = namespace)

NoResponse == [kind |-> "none", namespace |-> "", body |-> << >>]

\* the server fields of a server started on context "dev"
InitStats ==
    /\ pods = << >>
    /\ appConfig \in { LoadConfig(y) : y \in YamlFiles }
    /\ resp = NoResponse
    /\ fetch = [f \in Fetches |-> IdleFetch]
    /\ kubeconfig = "dev"
    /\ clientset = "dev"
    /\ config = NewClientConfig("", "dev")
    /\ sw = [p \in Reqs |-> IdleSwitch]
    /\ done = NoneDone

\* the cluster changes: a pod appears, after those the API server already lists
PodAppears ==
    /\ \E i \in (LastPodId(pods) + 1)..Len(PodIds), ph \in Phases :
          pods' = Append(pods, [Namespace |-> PodIds[i].Namespace, Name |-> PodIds[i].Name,
                                Phase |-> ph, ContainerStatuses |-> << >>])
    /\ resp' = NoResponse
    /\ UNCHANGED <<appConfig, fetch, serverVars>>

\* the cluster changes: the kubelet reports one more container of the newest pod
ContainerReported ==
    /\ pods # << >>
    /\ ContainerCount(pods) < MaxContainers
    /\ \E c \in ContainerStates :
          pods' = [pods EXCEPT ![Len(pods)].ContainerStatuses =
                      Append(@, [Name |-> ContainerNames[Len(@) + 1],
                                 RestartCount |-> c.RestartCount, Waiting |-> c.Waiting])]
    /\ resp' = NoResponse
    /\ UNCHANGED <<appConfig, fetch, serverVars>>

\* Server.getNamespaceStats
getNamespaceStats ==
    /\ \E r \in calculateNamespaceStats(ListPods("")) :
          resp' = [kind |-> "stats", namespace |-> "", body |-> r]
    /\ UNCHANGED <<pods, appConfig, fetch, serverVars>>

\* Server.getNamespacePodErrors
getNamespacePodErrors ==
    /\ \E namespace \in Namespaces :
          resp' = [kind |-> "errors", namespace |-> namespace,
                   body |-> getPodErrors(ListPods(namespace))]
    /\ UNCHANGED <<pods, appConfig, fetch, serverVars>>

NextStats == PodAppears \/ ContainerReported \/ getNamespaceStats \/ getNamespacePodErrors

SpecStats == InitStats /\ [][NextStats]_vars

(***************************************************************************)
(* The classification of the containers of one pod, over every waiting     *)
(* reason isErrorState knows, one it does not know, and restart counts on  *)
(* both sides of the configured and of the built-in threshold.             *)
(***************************************************************************)
\* at most this many container statuses on the pod
MaxClassified == 1

ClassifiedRestartCounts == {0, 1, 2, 5, 6}

ClassifiedReasons == {"CrashLoopBackOff", "ImagePullBackOff", "ErrImagePull",
                      "CreateContainerError", "InvalidImageName", "ImageInspectError",
                      "ErrImageNeverPull", "ContainerCreating"}

ClassifiedStates ==
    [RestartCount : ClassifiedRestartCounts, Waiting : ClassifiedReasons \cup {NoWaiting}]

\* the cluster changes: the one pod of the list appears
PodListed ==
    /\ pods = << >>
    /\ \E i \in 1..Len(PodIds), ph \in Phases :
          pods' = << [Namespace |-> PodIds[i].Namespace, Name |-> PodIds[i].Name,
                      Phase |-> ph, ContainerStatuses |-> << >>] >>
    /\ resp' = NoResponse
    /\ UNCHANGED <<appConfig, fetch, serverVars>>

\* the cluster changes: the kubelet reports one more container of the pod
ClassifiedContainerReported ==
    /\ pods # << >>
    /\ ContainerCount(pods) < MaxClassified
    /\ \E c \in ClassifiedStates :
          pods' = [pods EXCEPT ![Len(pods)].ContainerStatuses =
                      Append(@, [Name |-> ContainerNames[Len(@) + 1],
                                 RestartCount |-> c.RestartCount, Waiting |-> c.Waiting])]
    /\ resp' = NoResponse
    /\ UNCHANGED <<appConfig, fetch, serverVars>>

NextClassify ==
    PodListed \/ ClassifiedContainerReported \/ getNamespaceStats \/ getNamespacePodErrors

SpecClassify == InitStats /\ [][NextClassify]_vars

(***************************************************************************)
(* The read handlers next to a context switch, in both modes of main: on a *)
(* kubeconfig file, at the recommended path or elsewhere, and in-cluster.  *)
(* A read handler reads s.clientset once, sends one List call and answers  *)
(* when it returns.  One switchContext call runs at a time here; how       *)
(* several interleave is what specification Spec covers.                   *)
(***************************************************************************)
\* the clientset rest.InClusterConfig() gives
InClusterClient == "<in-cluster>"

\* the cluster a clientset talks to
ClusterOf(client) == IF client = InClusterClient THEN "local" ELSE KubeContexts[client]

\* the pods of each cluster a clientset can be built for
ClusterPods ==
    "east" :> << [Namespace |-> "a", Name |-> "p1", Phase |-> "Failed",
                  ContainerStatuses |-> << >>] >> @@
    "west" :> << [Namespace |-> "b", Name |-> "p2", Phase |-> "Running",
                  ContainerStatuses |-> << [Name |-> "c1", RestartCount |-> 10,
                                            Waiting |-> "CrashLoopBackOff"] >>] >> @@
    "local" :> << >>

\* the requests the two read routes take: GET /api/namespaces and
\* GET /api/namespaces/{namespace}/pods
ReadRequests ==
    { [handler |-> "stats", namespace |-> ""] } \cup
    { [handler |-> "errors", namespace |-> n] : n \in Namespaces }

\* the kubernetes sections read: in-cluster or not, the kubeconfig file at the
\* recommended path or at another one
ReadYamlFiles ==
    { [HighRestartThreshold |-> 0, ErrorWeights |-> ZeroWeights, Kubernetes |-> k] :
        k \in [UseInCluster : BOOLEAN,
               KubeconfigPath : {RecommendedHomeFile, "/etc/monitor/kubeconfig"}] }

\* main (main.go:54-101) in either mode; in-cluster, clientConfig is never
\* assigned and Server.config points to its nil interface value
InitReads ==
    /\ pods = << >>
    /\ appConfig \in { LoadConfig(y) : y \in ReadYamlFiles }
    /\ resp = NoResponse
    /\ fetch = [f \in Fetches |-> IdleFetch]
    /\ IF appConfig.Kubernetes.UseInCluster
         THEN /\ kubeconfig = "dev"
              /\ clientset = InClusterClient
              /\ config = NilClientConfig
         ELSE \E current \in DOMAIN KubeContexts :
                /\ ClientConfigOk(current)
                /\ NewForConfigOk(current)
                /\ kubeconfig = current
                /\ clientset = current
                /\ config = NewClientConfig("", current)
    /\ sw = [p \in Reqs |-> IdleSwitch]
    /\ done = NoneDone

\* main.go:221, 237: s.clientset is read and the List call is sent
FetchStart(f, request) ==
    /\ fetch[f].pc = "idle"
    /\ fetch' = [fetch EXCEPT ![f] = [pc |-> "listing", client |-> clientset,
                                      handler |-> request.handler,
                                      namespace |-> request.namespace, attempts |-> 1]]
    /\ resp' = NoResponse
    /\ done' = NoneDone
    /\ UNCHANGED <<pods, appConfig, kubeconfig, clientset, config, sw>>

\* the pods a List call on a cluster returns
ClusterList(cluster, namespace) ==
    SelectSeq(ClusterPods[cluster], LAMBDA pod : namespace = "" \/ pod.Namespace = namespace)

\* the response to a read request whose List call returned no error
ReadResponses(rq) ==
    IF rq.handler = "stats"
      THEN { [kind |-> "stats", namespace |-> "", body |-> r, client |-> rq.client,
              attempts |-> rq.attempts] :
               r \in calculateNamespaceStats(ClusterList(ClusterOf(rq.client), "")) }
      ELSE { [kind |-> "errors", namespace |-> rq.namespace,
              body |-> getPodErrors(ClusterList(ClusterOf(rq.client), rq.namespace)),
              client |-> rq.client, attempts |-> rq.attempts] }

\* FetchFinish with a slip: a failed List call is sent once more
FetchFinish_Retries(f, listed) ==
    /\ fetch[f].pc = "listing"
    /\ IF listed
         THEN /\ resp' \in ReadResponses(fetch[f])
              /\ fetch' = [fetch EXCEPT ![f] = IdleFetch]
         ELSE IF fetch[f].attempts < 2
         THEN /\ resp' = NoResponse
              /\ fetch' = [fetch EXCEPT ![f].attempts = @ + 1]
         ELSE /\ resp' = [kind |-> "FetchFailure", namespace |-> fetch[f].namespace,
                          body |-> << >>, client |-> fetch[f].client,
                          attempts |-> fetch[f].attempts]
              /\ fetch' = [fetch EXCEPT ![f] = IdleFetch]
    /\ done' = NoneDone
    /\ UNCHANGED <<pods, appConfig, kubeconfig, clientset, config, sw>>

\* FetchFinish with a slip: s.clientset is read again when the answer is built
FetchFinish_ReadsAgain(f, listed) ==
    /\ fetch[f].pc = "listing"
    /\ IF listed
         THEN resp' \in ReadResponses([fetch[f] EXCEPT !.client = clientset])
         ELSE resp' = [kind |-> "FetchFailure", namespace |-> fetch[f].namespace,
                       body |-> << >>, client |-> fetch[f].client,
                       attempts |-> fetch[f].attempts]
    /\ fetch' = [fetch EXCEPT ![f] = IdleFetch]
    /\ done' = NoneDone
    /\ UNCHANGED <<pods, appConfig, kubeconfig, clientset, config, sw>>

\* main.go:221-230, 237-246: the List call returns; on an error the handler
\* answers 500 with the error text and returns, else it answers with what it
\* computes from the list
FetchFinish(f, listed) ==
    /\ fetch[f].pc = "listing"
    /\ IF listed
         THEN resp' \in ReadResponses(fetch[f])
         ELSE resp' = [kind |-> "FetchFailure", namespace |-> fetch[f].namespace,
                       body |-> << >>, client |-> fetch[f].client,
                       attempts |-> fetch[f].attempts]
    /\ fetch' = [fetch EXCEPT ![f] = IdleFetch]
    /\ done' = NoneDone
    /\ UNCHANGED <<pods, appConfig, kubeconfig, clientset, config, sw>>

\* Server.getContexts (main.go:124-148)
getContexts ==
    /\ resp' = IF config = NilPointer
                 THEN [kind |-> "NotRunningWithKubeconfig", namespace |-> "", body |-> << >>]
               ELSE IF config = NilClientConfig
                 THEN [kind |-> "panic", namespace |-> "", body |-> << >>]
               ELSE [kind |-> "contexts", namespace |-> "", body |-> << config.RawCurrent >>]
    /\ done' = NoneDone
    /\ UNCHANGED <<pods, appConfig, fetch, kubeconfig, clientset, config, sw>>

NextReads ==
    \/ \E name \in RequestedNames :
          SwitchValidate(1, name) /\ resp' = NoResponse /\ UNCHANGED <<pods, appConfig, fetch>>
    \/ \E written \in BOOLEAN :
          SwitchPersist(1, written) /\ resp' = NoResponse /\ UNCHANGED <<pods, appConfig, fetch>>
    \/ SwitchConstruct(1) /\ resp' = NoResponse /\ UNCHANGED <<pods, appConfig, fetch>>
    \/ SwitchPublishClientset(1) /\ resp' = NoResponse /\ UNCHANGED <<pods, appConfig, fetch>>
    \/ SwitchPublishConfig(1) /\ resp' = NoResponse /\ UNCHANGED <<pods, appConfig, fetch>>
    \/ \E f \in Fetches, request \in ReadRequests : FetchStart(f, request)
    \/ \E f \in Fetches, listed \in BOOLEAN : FetchFinish(f, listed)
    \/ getContexts

SpecReads == InitReads /\ [][NextReads]_vars

(***************************************************************************)
(* Properties of the aggregation pipeline (checked under SpecStats).       *)
(***************************************************************************)
\* namespace names in ascending order
NamespaceOrder == <<"a", "b">>

NameLess(x, y) ==
    \E i, j \in 1..Len(NamespaceOrder) :
        NamespaceOrder[i] = x /\ NamespaceOrder[j] = y /\ i < j

\* the records getPodErrors emits for one namespace of the pod list
RecordsOf(namespace) ==
    SelectSeq(getPodErrors(pods), LAMBDA e : e.Namespace = namespace)

RECURSIVE SumRestartCount(_)
SumRestartCount(records) ==
    IF records = << >> THEN 0
    ELSE Head(records).RestartCount + SumRestartCount(Tail(records))

StatsReturned == resp.kind = "stats"

ErrorsReturned == resp.kind = "errors"

\* C1: the returned sequence is fixed by the pod list alone: it is ordered by
\* score descending and, among equal scores, by namespace name ascending, so
\* that two runs on the same pod list return the same sequence.
C1_RankingDeterministic ==
    StatsReturned =>
        \A i, j \in 1..Len(resp.body) :
            i < j => \/ resp.body[i].Score > resp.body[j].Score
                     \/ /\ resp.body[i].Score = resp.body[j].Score
                        /\ NameLess(resp.body[i].Name, resp.body[j].Name)

\* C7: the totalErrors of every namespace in the result is the number of
\* records getPodErrors emits for that namespace on the same pod list.
C7_TotalErrorsCountsRecords ==
    StatsReturned =>
        \A i \in 1..Len(resp.body) :
            resp.body[i].TotalErrors = Len(RecordsOf(resp.body[i].Name))

\* C8 as stated: totalRestarts is the sum of restartCount over all the records
\* of the namespace.
C8_SumOverAllRecords ==
    StatsReturned =>
        \A i \in 1..Len(resp.body) :
            resp.body[i].TotalRestarts = SumRestartCount(RecordsOf(resp.body[i].Name))

\* C8 as amended: totalRestarts is the sum of restartCount over the
\* HighRestartCount records of the namespace only; the restart count on a
\* record of any other kind adds nothing.
C8_SumOverHighRestartRecords ==
    StatsReturned =>
        \A i \in 1..Len(resp.body) :
            resp.body[i].TotalRestarts =
                SumRestartCount(SelectSeq(RecordsOf(resp.body[i].Name),
                                          LAMBDA e : e.ErrorType = "HighRestartCount"))

\* a result whose namespace has a waiting-reason record on a restarted
\* container next to a HighRestartCount record
C8_Witness ==
    /\ StatsReturned
    /\ \E i \in 1..Len(resp.body) :
         /\ resp.body[i].TotalRestarts > 0
         /\ \E k \in 1..Len(RecordsOf(resp.body[i].Name)) :
              /\ RecordsOf(resp.body[i].Name)[k].ErrorType = "CrashLoopBackOff"
              /\ RecordsOf(resp.body[i].Name)[k].RestartCount > 0

\* pod p2 of namespace b: one container, restarted 10 times, in CrashLoopBackOff
ScenarioPod ==
    [Namespace |-> "b", Name |-> "p2", Phase |-> "Running",
     ContainerStatuses |-> << [Name |-> "c1", RestartCount |-> 10,
                               Waiting |-> "CrashLoopBackOff"] >>]

\* C9: when that pod is the only pod of namespace b, getPodErrors emits
\* exactly a HighRestartCount and a CrashLoopBackOff record for b, and the
\* stats of b are totalErrors 2, crashLoop 1, highRestarts 1, totalRestarts 10
\* and score 6.0.
C9_CrashLoopScenario ==
    ListPods("b") = << ScenarioPod >> =>
        /\ (resp.kind = "errors" /\ resp.namespace = "b") =>
              /\ Len(resp.body) = 2
              /\ resp.body[1].ErrorType = "HighRestartCount"
              /\ resp.body[2].ErrorType = "CrashLoopBackOff"
        /\ StatsReturned =>
              \E i \in 1..Len(resp.body) :
                  /\ resp.body[i].Name = "b"
                  /\ resp.body[i].TotalErrors = 2
                  /\ resp.body[i].CrashLoop = 1
                  /\ resp.body[i].HighRestarts = 1
                  /\ resp.body[i].TotalRestarts = 10
                  /\ resp.body[i].Score = 60

C9_Witness == ListPods("b") = << ScenarioPod >> /\ StatsReturned

\* C10: the score of every entry is the weighted sum under the error_weights
\* of the loaded configuration.
C10_ScoreUsesConfiguredWeights ==
    StatsReturned =>
        \A i \in 1..Len(resp.body) :
            LET st == resp.body[i]
                w  == appConfig.ErrorWeights
            IN st.Score = st.CrashLoop * w.CrashLoop + st.ImagePull * w.ImagePull
                          + st.HighRestarts * w.HighRestarts
                          + (st.TotalErrors - st.CrashLoop - st.ImagePull - st.HighRestarts)
                              * w.OtherErrors
                          + st.TotalRestarts * w.RestartMultiplier

\* C13: every entry of the result has totalErrors > 0, and a namespace for
\* which getPodErrors emits no record has no entry in the result.
C13_NoZeroErrorNamespace ==
    StatsReturned =>
        /\ \A i \in 1..Len(resp.body) : resp.body[i].TotalErrors > 0
        /\ \A namespace \in Namespaces :
              RecordsOf(namespace) = << >> =>
                  \A i \in 1..Len(resp.body) : resp.body[i].Name # namespace

\* a result with an entry, returned while another namespace has a pod and no
\* records
C13_Witness ==
    /\ StatsReturned
    /\ resp.body # << >>
    /\ \E namespace \in Namespaces :
          /\ ListPods(namespace) # << >>
          /\ RecordsOf(namespace) = << >>
          /\ \A i \in 1..Len(resp.body) : resp.body[i].Name # namespace

\* C14: in every entry crashLoop + imagePull + highRestarts is at most
\* totalErrors, so that the derived count of other errors is never negative.
C14_OtherErrorsNotNegative ==
    StatsReturned =>
        \A i \in 1..Len(resp.body) :
            /\ resp.body[i].CrashLoop >= 0
            /\ resp.body[i].ImagePull >= 0
            /\ resp.body[i].HighRestarts >= 0
            /\ resp.body[i].CrashLoop + resp.body[i].ImagePull + resp.body[i].HighRestarts
                  <= resp.body[i].TotalErrors

\* an entry that counts a crash loop, a high restart count and nothing else
C14_Witness ==
    /\ StatsReturned
    /\ \E i \in 1..Len(resp.body) :
          /\ resp.body[i].CrashLoop = 1
          /\ resp.body[i].HighRestarts = 1
          /\ resp.body[i].TotalErrors = 2

\* C15: no entry of the result has a smaller score than the entry after it;
\* namespace a with score 1.0 and namespace b with score 6.0 come back as
\* [b, a].
C15_SortedByScoreDescending ==
    StatsReturned =>
        /\ \A i \in 1..(Len(resp.body) - 1) : resp.body[i].Score >= resp.body[i + 1].Score
        /\ (\E i, j \in 1..Len(resp.body) :
               /\ resp.body[i].Name = "a" /\ resp.body[i].Score = 10
               /\ resp.body[j].Name = "b" /\ resp.body[j].Score = 60)
             => (Len(resp.body) = 2 /\ resp.body[1].Name = "b" /\ resp.body[2].Name = "a")

C15_Witness ==
    /\ StatsReturned
    /\ Len(resp.body) = 2
    /\ resp.body[1].Name = "b" /\ resp.body[1].Score = 60
    /\ resp.body[2].Name = "a" /\ resp.body[2].Score = 10

\* pod p1 of namespace a: phase Failed, no container statuses
FailedScenarioPod ==
    [Namespace |-> "a", Name |-> "p1", Phase |-> "Failed", ContainerStatuses |-> << >>]

\* C17: when that pod is the only pod of namespace a, getPodErrors emits
\* exactly one record for a, a PodFailed record, and the stats of a are
\* totalErrors 1, crashLoop 0 and score 1.0.
C17_FailedPodScenario ==
    ListPods("a") = << FailedScenarioPod >> =>
        /\ (ErrorsReturned /\ resp.namespace = "a") =>
              /\ Len(resp.body) = 1
              /\ resp.body[1].ErrorType = "PodFailed"
              /\ resp.body[1].PodName = "p1"
        /\ StatsReturned =>
              \E i \in 1..Len(resp.body) :
                  /\ resp.body[i].Name = "a"
                  /\ resp.body[i].TotalErrors = 1
                  /\ resp.body[i].CrashLoop = 0
                  /\ resp.body[i].Score = 10

C17_Witness == ListPods("a") = << FailedScenarioPod >> /\ StatsReturned

\* by how much a counter is raised
Raises == {1, 2, 10}

\* C19: an entry that differs from a returned entry only by a larger
\* crashLoop, imagePull, highRestarts or totalRestarts has a strictly larger
\* score.
C19_ScoreStrictlyIncreasing ==
    StatsReturned =>
        \A i \in 1..Len(resp.body) : \A d \in Raises :
            LET st == resp.body[i] IN
            /\ Score([st EXCEPT !.CrashLoop = @ + d]) > st.Score
            /\ Score([st EXCEPT !.ImagePull = @ + d]) > st.Score
            /\ Score([st EXCEPT !.HighRestarts = @ + d]) > st.Score
            /\ Score([st EXCEPT !.TotalRestarts = @ + d]) > st.Score

\* an entry in which three of the four counters are above zero
C19_Witness ==
    /\ StatsReturned
    /\ \E i \in 1..Len(resp.body) :
          /\ resp.body[i].CrashLoop > 0
          /\ resp.body[i].HighRestarts > 0
          /\ resp.body[i].TotalRestarts > 0

\* C20: the uniquePods of every entry is the number of distinct pod names on
\* the records getPodErrors emits for that namespace.
C20_UniquePodsCountsRecordPods ==
    StatsReturned =>
        \A i \in 1..Len(resp.body) :
            resp.body[i].UniquePods =
                Cardinality({ RecordsOf(resp.body[i].Name)[k].PodName :
                                k \in 1..Len(RecordsOf(resp.body[i].Name)) })

(***************************************************************************)
(* The pipeline of the command-line client: displayErrors classifies the   *)
(* pods into error records and calculateNamespaceStats aggregates the      *)
(* records.  Its source is not part of the backend; it is written here     *)
(* from the classifier, aggregator and scorer of the design document.      *)
(***************************************************************************)
\* the records of one container: restartCount above the configured threshold,
\* and the waiting reason mapped to its kind
CliContainerErrors(pod, cs, threshold) ==
    (IF cs.RestartCount > threshold
       THEN << [Namespace |-> pod.Namespace, PodName |-> pod.Name,
                ErrorType |-> "HighRestartCount", ContainerName |-> cs.Name,
                RestartCount |-> cs.RestartCount] >>
       ELSE << >>)
    \o
    (IF cs.Waiting \in {"CrashLoopBackOff", "ImagePullBackOff", "ErrImagePull",
                        "CreateContainerError", "InvalidImageName", "ImageInspectError",
                        "ErrImageNeverPull"}
       THEN << [Namespace |-> pod.Namespace, PodName |-> pod.Name,
                ErrorType |-> IF cs.Waiting = "CrashLoopBackOff" THEN "CrashLoop"
                              ELSE IF cs.Waiting \in {"ImagePullBackOff", "ErrImagePull"}
                                THEN "ImagePullFailure"
                              ELSE "OtherContainerError",
                ContainerName |-> cs.Name, RestartCount |-> cs.RestartCount] >>
       ELSE << >>)

RECURSIVE CliContainersErrors(_, _, _)
CliContainersErrors(pod, css, threshold) ==
    IF css = << >> THEN << >>
    ELSE CliContainerErrors(pod, Head(css), threshold)
         \o CliContainersErrors(pod, Tail(css), threshold)

\* the records of the pods of a list
RECURSIVE displayErrors(_, _)
displayErrors(items, threshold) ==
    IF items = << >> THEN << >>
    ELSE (IF Head(items).Phase = "Failed"
            THEN << [Namespace |-> Head(items).Namespace, PodName |-> Head(items).Name,
                     ErrorType |-> "InstanceFailed", ContainerName |-> "",
                     RestartCount |-> 0] >>
            ELSE << >>)
         \o CliContainersErrors(Head(items), Head(items).ContainerStatuses, threshold)
         \o displayErrors(Tail(items), threshold)

\* the stats of the namespaces that have records: counts of records by kind,
\* distinct pod names, restart counts summed over all the records, and the
\* weighted score, in tenths
CliNamespaceStats(records, weights) ==
    { LET recs == SelectSeq(records, LAMBDA e : e.Namespace = n)
          kind(k) == Len(SelectSeq(recs, LAMBDA e : e.ErrorType = k))
          other == Len(recs) - kind("CrashLoop") - kind("ImagePullFailure")
                     - kind("HighRestartCount")
      IN [Name |-> n,
          TotalErrors |-> Len(recs),
          Score |-> kind("CrashLoop") * weights.CrashLoop
                    + kind("ImagePullFailure") * weights.ImagePull
                    + kind("HighRestartCount") * weights.HighRestarts
                    + other * weights.OtherErrors
                    + SumRestartCount(recs) * weights.RestartMultiplier,
          UniquePods |-> Cardinality({ recs[k].PodName : k \in 1..Len(recs) }),
          CrashLoop |-> kind("CrashLoop"),
          ImagePull |-> kind("ImagePullFailure"),
          HighRestarts |-> kind("HighRestartCount"),
          TotalRestarts |-> SumRestartCount(recs)] :
        n \in { records[k].Namespace : k \in 1..Len(records) } }

RecordsFor(pod, cs, types) ==
    SelectSeq(resp.body, LAMBDA e : /\ e.Namespace = pod.Namespace
                                    /\ e.PodName = pod.Name
                                    /\ e.ContainerName = cs.Name
                                    /\ e.ErrorType \in types)

\* the number of containers of a pod list whose waiting reason is one of reasons
RECURSIVE ContainersWaiting(_, _)
ContainersWaiting(items, reasons) ==
    IF items = << >> THEN 0
    ELSE Len(SelectSeq(Head(items).ContainerStatuses, LAMBDA cs : cs.Waiting \in reasons))
         + ContainersWaiting(Tail(items), reasons)

\* C11: the response holds a HighRestartCount record for a container exactly
\* when the container's restart count is strictly greater than the
\* high_restart_threshold of the loaded configuration.
C11_HighRestartIffAboveConfigured ==
    ErrorsReturned =>
        \A k \in 1..Len(ListPods(resp.namespace)) :
            LET pod == ListPods(resp.namespace)[k] IN
            \A c \in 1..Len(pod.ContainerStatuses) :
                LET cs == pod.ContainerStatuses[c] IN
                (Len(RecordsFor(pod, cs, {"HighRestartCount"})) = 1)
                    <=> (cs.RestartCount > appConfig.HighRestartThreshold)

\* C12: the records of a pod in phase Failed are one PodFailed record followed
\* by the container records the same pod yields in phase Running; in
\* particular each of its containers in CrashLoopBackOff has its record.
C12_FailedPodStillClassified ==
    ErrorsReturned =>
        \A k \in 1..Len(ListPods(resp.namespace)) :
            LET pod  == ListPods(resp.namespace)[k]
                mine == SelectSeq(resp.body, LAMBDA e : e.PodName = pod.Name)
            IN pod.Phase = "Failed" =>
                 /\ mine # << >>
                 /\ Head(mine).ErrorType = "PodFailed"
                 /\ Head(mine).ContainerName = ""
                 /\ Tail(mine) = getPodErrors(<< [pod EXCEPT !.Phase = "Running"] >>)
                 /\ \A e \in 1..Len(Tail(mine)) : Tail(mine)[e].ErrorType # "PodFailed"
                 /\ \A c \in 1..Len(pod.ContainerStatuses) :
                       pod.ContainerStatuses[c].Waiting = "CrashLoopBackOff" =>
                           Len(RecordsFor(pod, pod.ContainerStatuses[c],
                                          {"CrashLoopBackOff"})) = 1

\* a failed pod whose container is in CrashLoopBackOff after 6 restarts, and
\* the three records returned for it
C12_Witness ==
    /\ ErrorsReturned
    /\ Len(pods) = 1
    /\ pods[1].Phase = "Failed"
    /\ Len(pods[1].ContainerStatuses) = 1
    /\ pods[1].ContainerStatuses[1].Waiting = "CrashLoopBackOff"
    /\ pods[1].ContainerStatuses[1].RestartCount = 6
    /\ Len(resp.body) = 3

\* C16: a container whose waiting reason is one of the seven error reasons has
\* exactly one waiting-reason record, of that reason; a container with any
\* other reason, or not waiting, has none; and the result counts the
\* CrashLoopBackOff containers in crashLoop and the ImagePullBackOff and
\* ErrImagePull containers in imagePull.
C16_WaitingReasonsClassified ==
    /\ ErrorsReturned =>
          \A k \in 1..Len(ListPods(resp.namespace)) :
              LET pod == ListPods(resp.namespace)[k] IN
              \A c \in 1..Len(pod.ContainerStatuses) :
                  LET cs   == pod.ContainerStatuses[c]
                      recs == RecordsFor(pod, cs, ClassifiedReasons \cup {NoWaiting, "PodFailed"})
                  IN IF cs.Waiting \in {"CrashLoopBackOff", "ImagePullBackOff", "ErrImagePull",
                                         "CreateContainerError", "InvalidImageName",
                                         "ImageInspectError", "ErrImageNeverPull"}
                       THEN Len(recs) = 1 /\ recs[1].ErrorType = cs.Waiting
                       ELSE recs = << >>
    /\ StatsReturned =>
          \A i \in 1..Len(resp.body) :
              /\ resp.body[i].CrashLoop =
                    ContainersWaiting(ListPods(resp.body[i].Name), {"CrashLoopBackOff"})
              /\ resp.body[i].ImagePull =
                    ContainersWaiting(ListPods(resp.body[i].Name),
                                      {"ImagePullBackOff", "ErrImagePull"})

\* the one record returned for a container waiting with ErrImageNeverPull
C16_Witness ==
    /\ ErrorsReturned
    /\ Len(pods) = 1
    /\ pods[1].Phase = "Running"
    /\ Len(pods[1].ContainerStatuses) = 1
    /\ pods[1].ContainerStatuses[1].Waiting = "ErrImageNeverPull"
    /\ pods[1].ContainerStatuses[1].RestartCount = 2
    /\ Len(resp.body) = 1

(***************************************************************************)
(* Properties of the context switch (checked under Spec).                  *)
(***************************************************************************)
Rejections == {"ContextNotFound", "ClusterRefInvalid", "PersistFailure",
               "ClientConstructionFailure"}

\* C2: a switchContext call that ends in a rejection has changed nothing; in
\* particular the kubeconfig file still names the context it named before.
C2_RejectionChangesNothing ==
    done.result \in Rejections => ~done.mutated

C4_ClientAndConfigAgree == clientset = BoundContext(config)

\* C5: at most one switchContext call is between its lookup and its last
\* publish step.
C5_OneSwitchInFlight == Cardinality({ p \in Reqs : sw[p].pc # "idle" }) <= 1

C18_ClusterRefRejectedBeforePersist ==
    /\ \A p \in Reqs :
          sw[p].pc \in {"construct", "publishClientset", "publishConfig"}
              => ClientConfigOk(sw[p].newContext)
    /\ done.result = "ClusterRefInvalid" => ~done.mutated

\* C24: when the last of the switchContext calls in progress has returned,
\* with success, the context the clientset is bound to is the current-context
\* of the kubeconfig file.
C24_ClientMatchesStorage ==
    ((\A p \in Reqs : sw[p].pc = "idle") /\ done.result = "ok") => clientset = kubeconfig

(***************************************************************************)
(* Properties of the read handlers (checked under SpecReads).              *)
(***************************************************************************)
\* C21: a read request uses the clientset that is published when it starts,
\* and its answer is computed from the pods of that clientset's cluster alone,
\* whatever a switchContext call has published while the List call was out.
C21_FetchUsesClientItRead ==
    [][ \A f \in Fetches :
          /\ (fetch[f].pc = "idle" /\ fetch'[f].pc = "listing")
                => fetch'[f].client = clientset
          /\ (fetch[f].pc = "listing" /\ fetch'[f].pc = "idle" /\ resp'.kind = "stats")
                => /\ resp'.client = fetch[f].client
                   /\ resp'.body \in calculateNamespaceStats(
                                        ClusterPods[ClusterOf(fetch[f].client)])
          /\ (fetch[f].pc = "listing" /\ fetch'[f].pc = "idle" /\ resp'.kind = "errors")
                => /\ resp'.client = fetch[f].client
                   /\ resp'.body = getPodErrors(
                                      ClusterList(ClusterOf(fetch[f].client), resp'.namespace))
      ]_vars

\* the stats of dev's cluster, returned after the clientset of prod was
\* published
C21_Witness ==
    /\ StatsReturned
    /\ resp.client = "dev"
    /\ resp.body # << >>
    /\ resp.body[1].Name = "a"
    /\ clientset = "prod"

\* C22: a read request sends one List call; when that call fails the handler
\* answers with the failure at once, and the answer carries no stats and no
\* records.
C22_FailedFetchAnsweredOnce ==
    /\ \A f \in Fetches : fetch[f].attempts <= 1
    /\ resp.kind = "FetchFailure" => (resp.attempts = 1 /\ resp.body = << >>)

\* the failure answered to a request for the records of namespace a
C22_Witness ==
    /\ resp.kind = "FetchFailure"
    /\ resp.namespace = "a"
    /\ \A f \in Fetches : fetch[f].pc = "idle"

\* C23: a getContexts call that follows a successful switchContext call
\* reports the name that call switched to, and the kubeconfig file the server
\* reads names it as current-context.
C23_ListAfterSwitchReportsName ==
    [][ (done.result = "ok" /\ resp'.kind = "contexts")
          => (resp'.body = << done.newContext >> /\ kubeconfig' = done.newContext) ]_vars

\* C25: on a server started in-cluster, getContexts and switchContext answer
\* "Not running with kubeconfig".
C25_InClusterAnswersNotRunning ==
    appConfig.Kubernetes.UseInCluster =>
        /\ resp.kind \in {"contexts", "panic", "NotRunningWithKubeconfig"}
              => resp.kind = "NotRunningWithKubeconfig"
        /\ done.result # "" => done.result = "NotRunningWithKubeconfig"

====
